---- MODULE Spec2Model ----
(***************************************************************************)
(* A model of the contractor pipeline of instalily_onsite:                 *)
(*   - the checkpointed record processors process_contractors_file         *)
(*     (extract_about_sections.py) and process_contractors_with_gpt        *)
(*     (analyze_contractors_with_gpt.py);                                  *)
(*   - the bounded-retry navigation safe_navigate (both copies);           *)
(*   - the pagination walk and the listing-item extraction of              *)
(*     scrape_contractor_info (gaf_scraper.py);                            *)
(*   - the locators of extract_about_section (extract_about_sections.py).  *)
(* Each component is a state machine of its own specification; the         *)
(* variables of the components a specification does not run stay at their  *)
(* initial values.                                                         *)
(***************************************************************************)
EXTENDS Integers, Sequences, FiniteSets, TLC

VARIABLES
    \* ---- record processor ----
    stage,      \* "about": process_contractors_file, "gpt": process_contractors_with_gpt
    pc,         \* position of the run: "read", "setup", "loop", "finally", "done", "killed",
                \* "killed_saving", "idle"
    exit,       \* how the run ended: "none", "normal", "read_error", "setup_error"
    df,         \* the DataFrame: a sequence of rows, each a function column -> value
    idx,        \* number of rows the loop has passed (the next row has 0-based index idx)
    infile,     \* the input row-store file: [exists, header, rows]
    outfile,    \* the output row-store file: [exists, header, rows]
    savedAt,    \* history: the number of rows passed at each df.to_csv(output_file)
    invoked,    \* history: the 1-based positions the per-record operation was invoked for
    anyFailed,  \* history: some row's processing raised into the per-record handler
    last,       \* what happened to the row passed last: "none", "processed", "skipped", "failed"
    slept,      \* whether the iteration that passed that row ran its time.sleep
    lastCall,   \* the answer to the analysis request made for that row (NoCall: none made)
    driver,     \* the browser session: "none", "open" (held by the local driver), "quit",
                \* "orphan" (created inside setup_driver, the local driver still None)
    run,        \* 1 for a first run, 2 for a run on the output of the first
    \* ---- safe_navigate ----
    navVariant, \* "gaf": gaf_scraper.safe_navigate, "about": extract_about_sections.safe_navigate
    max_retries,\* the argument max_retries
    attempt,    \* the loop variable of "for attempt in range(max_retries)"
    navPc,      \* "idle", "attempt", "returned", "raised"
    navResult,  \* the value returned: "none" before the return, "True", "False"
    navLog,     \* history: what each driver.get attempt ended with
    sleeps,     \* history: after which attempts (1-based) the backoff time.sleep(5) ran
    \* ---- scrape_contractor_info: the pagination walk ----
    wpc,        \* "idle", "nav", "page", "next", "returned"
    max_pages,  \* the argument max_pages
    current_page,     \* the page counter
    contractors_data, \* the list returned: here the <<page, item>> of each record appended
    loads,      \* history: listing pages loaded (the start address, each click on "next")
    clicks,     \* history: clicks on the "next" control
    stop,       \* history: why the walk ended
    contractor_items, \* len(contractor_items): the listing items found on the page at hand
    \* the lookup of the "next" control on the page at hand (nothing before it ran):
    on_page,    \* the "next" locators that have a control on the page
    located,    \* the locator whose control became next_button ("none": next_button is None)
    button_disabled,  \* the value read for its disabled attribute ("unread" when none was read)
    \* ---- scrape_contractor_info: one listing item ----
    ipc,        \* "idle", "name", "rating", "certs", "phone", "append", "done"
    contractor_data,  \* the dictionary of the item: field -> value
    name_text,  \* what the name element of the item reads as ("N/A" when it has none)
    cert_elements,    \* the elements the certifications locator matched (kept until the phone block)
    appended,   \* the records the item added to contractors_data (none or one)
    \* ---- extract_about_section ----
    apc,        \* "idle", "navigate", "extract", "returned", "raised"
    page,       \* the detail page: how the navigation ends, and the document
    about_text  \* the local about_text; at "returned" the value returned

procVars == <<stage, pc, exit, df, idx, infile, outfile, savedAt, invoked,
              anyFailed, last, slept, lastCall, driver, run>>

navVars == <<navVariant, max_retries, attempt, navPc, navResult, navLog, sleeps>>

walkVars == <<wpc, max_pages, current_page, contractors_data, loads, clicks, stop,
              contractor_items, on_page, located, button_disabled>>

itemVars == <<ipc, contractor_data, name_text, cert_elements, appended>>

aboutVars == <<apc, page, about_text>>

vars == <<procVars, navVars, walkVars, itemVars, aboutVars>>

\* ---------------------------------------------------------------- bounds

\* Largest number of rows of an input row-store.
MaxRecords == 6
\* Largest number of rows of a row-store that is processed twice.
MaxResumeRecords == 2

\* ------------------------------------------------------- program constants

\* (idx + 1) % 5 == 0: the checkpoint cadence of both processors.
BatchSize == 5

\* The default sentinel of every field.
NA == "N/A"
\* pandas' missing value (float nan) of a cell in memory.
NaN == "NaN"
\* The error sentinel of the analysis call.
ApiError == "Error in API call"
\* Python's None, the content of a 200 response that carries no text.
None == "None"

Stages == {"about", "gpt"}

\* The column a stage adds and fills.
StageCol(s) == IF s = "about" THEN "about_section" ELSE "gpt_analysis"

\* --------------------------------------------------------- the row-store

\* The cell texts pd.read_csv reads as a missing value (pandas' default
\* na_values, the ones that occur here): the sentinel itself is one of them.
NaValues == {"", "N/A", "NaN"}

\* pd.read_csv on one cell.
read_cell(c) == IF c \in NaValues THEN NaN ELSE c

\* DataFrame.to_csv on one value: a missing value is written as the empty cell.
to_csv_cell(v) == IF v = NaN THEN "" ELSE v

\* pd.read_csv(input_file): every row, every cell.
read_csv(rows) ==
    [i \in 1..Len(rows) |-> [c \in DOMAIN rows[i] |-> read_cell(rows[i][c])]]

\* df.to_csv(output_file, index=False): the whole frame, every row.
to_csv(d) ==
    [i \in 1..Len(d) |-> [c \in DOMAIN d[i] |-> to_csv_cell(d[i][c])]]

\* df[col] = v: the column is added to, or overwritten in, every row.
set_column(d, col, v) ==
    [i \in 1..Len(d) |->
        [c \in (DOMAIN d[i]) \cup {col} |-> IF c = col THEN v ELSE d[i][c]]]

\* Mutant: the assignment enlarges the frame, as df.at does for a new label.
set_at_enlarging(d, i, col, v) == Append(d, [d[i] EXCEPT ![col] = v])

\* df.at[i, col] = v (i is 1-based here).
set_at(d, i, col, v) == [d EXCEPT ![i] = [d[i] EXCEPT ![col] = v]]

\* A file is the lines written to it: the header line and the row lines.
NoFile == [exists |-> FALSE, header |-> FALSE, rows |-> <<>>]
FileOf(rows) == [exists |-> TRUE, header |-> TRUE, rows |-> rows]

\* The file a df.to_csv leaves when the process ends after k of its lines:
\* the file is opened for writing (and so emptied), then the header line and
\* the row lines are written in order.
cut_file(rows, k) ==
    [exists |-> TRUE, header |-> k >= 1,
     rows |-> SubSeq(rows, 1, IF k >= 1 THEN k - 1 ELSE 0)]

\* ------------------------------------------------- per-record decisions

\* extract stage: "if page_link == 'N/A' or not page_link".
no_page_link(page_link) == page_link = NA \/ page_link = ""

\* analysis stage: "row.get('gpt_analysis') != 'N/A' and not pd.isna(...)".
already_processed(v) == v # NA /\ v # NaN

\* The test that makes the loop body skip a row.
skip_record(s, row) ==
    IF s = "about" THEN no_page_link(row["page_link"])
    ELSE already_processed(row["gpt_analysis"])

\* Mutant: the checkpoint test without its "or idx == len(df) - 1".
is_checkpoint_batch_only(i, n) == (i + 1) % BatchSize = 0

\* "(idx + 1) % 5 == 0 or idx == len(df) - 1", i the 0-based index.
is_checkpoint(i, n) == (i + 1) % BatchSize = 0 \/ i = n - 1

\* Whether the per-record except handler writes the row-store: the analysis
\* stage's does (df.to_csv), the extract stage's only prints and continues.
handler_saves(s) == s = "gpt"

\* Mutant: the per-record handler leaves the loop instead of continuing.
after_failure_abort(s) == IF s = "about" THEN "finally" ELSE "done"

\* Where the loop goes after the per-record handler: "continue" in both stages.
after_failure(s) == "loop"

\* ------------------------------------------------ the per-record operations

\* What the analysis endpoint can answer: a transport exception, a non-200
\* status, or a 200 whose body holds the text, holds no text, or is malformed.
Responses ==
    { [exc |-> TRUE,  status_code |-> 0,   content |-> None],
      [exc |-> FALSE, status_code |-> 500, content |-> None],
      [exc |-> FALSE, status_code |-> 200, content |-> "analysis"],
      [exc |-> FALSE, status_code |-> 200, content |-> None],
      [exc |-> FALSE, status_code |-> 200, content |-> "malformed"] }

\* No request was made.
NoCall == [exc |-> FALSE, status_code |-> 0, content |-> None]

\* The columns the prompt of analyze_contractor_with_gpt reads (of the modelled ones).
PromptColumns == {"about_section"}

\* Mutant: the status code is not checked.
api_call_unchecked(resp) == IF resp.exc THEN ApiError ELSE resp.content

\* The try block of analyze_contractor_with_gpt: the value it returns.
api_call(resp) ==
    IF resp.exc THEN ApiError
    ELSE IF resp.status_code = 200
         THEN IF resp.content = "malformed" THEN ApiError ELSE resp.content
         ELSE ApiError

\* analyze_contractor_with_gpt(contractor_data, api_key): building the prompt
\* raises KeyError on a missing column, outside the try block.
analyze_contractor_with_gpt(row, resp) ==
    IF ~(PromptColumns \subseteq DOMAIN row)
    THEN [raised |-> TRUE, value |-> None, call |-> NoCall]
    ELSE [raised |-> FALSE, value |-> api_call(resp), call |-> resp]

\* What a detail page can do to extract_about_section: the navigation succeeds
\* and the locators give a text or nothing, the navigation fails after its
\* retries, or the session raises an exception safe_navigate does not catch.
AboutPages ==
    { [nav |-> "ok",    text |-> "about text"],
      [nav |-> "ok",    text |-> NA],
      [nav |-> "fail",  text |-> NA],
      [nav |-> "crash", text |-> NA] }

\* extract_about_section(driver, url).
extract_about_section(pg) ==
    IF pg.nav = "crash" THEN [raised |-> TRUE, value |-> NA, call |-> NoCall]
    ELSE IF pg.nav = "fail" THEN [raised |-> FALSE, value |-> NA, call |-> NoCall]
    ELSE [raised |-> FALSE, value |-> pg.text, call |-> NoCall]

\* The environments of one loop body. A missing page link is no address: the
\* navigation to it does not succeed.
Environments(s, row) ==
    IF s = "about"
    THEN { p \in AboutPages : row["page_link"] = NaN => p.nav # "ok" }
    ELSE Responses

\* The loop body from the call of the operation up to the df.at assignment:
\* the value to store, or that an exception reached the per-record handler
\* (len(analysis) raises TypeError when the analysis is None).
operation(s, row, env) ==
    IF s = "about" THEN extract_about_section(env)
    ELSE LET a == analyze_contractor_with_gpt(row, env)
         IN IF a.raised \/ a.value = None
            THEN [raised |-> TRUE, value |-> NA, call |-> a.call]
            ELSE a

\* ------------------------------------------------------ processor actions

\* Mutant: there is no save after the loop.
no_final_save(s) == FALSE

\* "Save final results": both stages write the frame after the loop,
\* whatever the loop did.
final_save(s) == TRUE

\* Mutant: a row whose processing raised is taken again.
next_index_retry(i, raised) == IF raised THEN i ELSE i + 1

\* "for idx, row in df.iterrows()": the row after row i, whether or not the
\* body raised into its handler (i counts the rows passed).
next_index(i, raised) == i + 1

\* The paths of the __main__ blocks.
input_file(s) ==
    IF s = "about" THEN "gaf_roofing_contractors.csv"
    ELSE "gaf_roofing_contractors_with_about.csv"

\* Mutant: the stage saves in place.
output_file_in_place(s) == input_file(s)

output_file(s) ==
    IF s = "about" THEN "gaf_roofing_contractors_with_about.csv"
    ELSE "gaf_roofing_contractors_with_analysis.csv"

\* The file at input_file when the file at output_file went from old to new:
\* a df.to_csv(output_file) reaches it only when both paths are one.
input_after(s, inf, old, new) ==
    IF output_file(s) = input_file(s) /\ new # old THEN new ELSE inf

\* pd.read_csv(input_file) and df[col] = 'N/A'.
ReadInput ==
    /\ UNCHANGED <<navVars, walkVars, itemVars, aboutVars>>
    /\ pc = "read"
    /\ IF infile.exists
       THEN /\ df' = set_column(read_csv(infile.rows), StageCol(stage), NA)
            /\ pc' = IF stage = "about" THEN "setup" ELSE "loop"
            /\ exit' = exit
       ELSE /\ df' = df
            /\ pc' = "done"
            /\ exit' = "read_error"
    /\ UNCHANGED <<stage, idx, infile, outfile, savedAt, invoked, anyFailed,
                   last, slept, lastCall, driver, run>>

\* Mutant: the run enters the loop whatever the setup ended with.
after_setup_continues(outcome) == "loop"

\* Where the run goes after the setup block: into the loop, or, when the
\* setup raised, through the outer handler to the finally block.
after_setup(outcome) == IF outcome = "ok" THEN "loop" ELSE "finally"

\* What the setup block can end with: it completes; webdriver.Chrome raises
\* (no session); set_page_load_timeout or set_script_timeout raises after
\* webdriver.Chrome returned; the first navigation or the cookie banner raises.
SetupOutcomes == {"ok", "no_driver", "timeouts_raise", "crash"}

\* The session after "driver = setup_driver()": setup_driver re-raises from
\* its handler without quitting, so a session whose timeouts could not be
\* set is never assigned to the local driver.
setup_driver(outcome) ==
    CASE outcome = "no_driver" -> "none"
      [] outcome = "timeouts_raise" -> "orphan"
      [] OTHER -> "open"

\* "if driver: driver.quit()".
quit_driver(d) == IF d = "open" THEN "quit" ELSE d

\* setup_driver(), then the first navigation and the cookie banner.
SetupDriver ==
    /\ UNCHANGED <<navVars, walkVars, itemVars, aboutVars>>
    /\ pc = "setup"
    /\ \E outcome \in SetupOutcomes :
         /\ driver' = setup_driver(outcome)
         /\ pc' = after_setup(outcome)
         /\ exit' = IF outcome = "ok" THEN exit ELSE "setup_error"
    /\ UNCHANGED <<stage, df, idx, infile, outfile, savedAt, invoked,
                   anyFailed, last, slept, lastCall, run>>

\* One iteration of "for idx, row in df.iterrows()": the whole try/except.
LoopBody ==
    /\ UNCHANGED <<navVars, walkVars, itemVars, aboutVars>>
    /\ pc = "loop"
    /\ idx < Len(df)
    /\ LET row == df[idx + 1]
           col == StageCol(stage)
       IN IF skip_record(stage, row)
          THEN /\ last' = "skipped"
               /\ slept' = FALSE
               /\ pc' = "loop"
               /\ lastCall' = NoCall
               /\ UNCHANGED <<df, outfile, savedAt, invoked, anyFailed>>
          ELSE \E env \in Environments(stage, row) :
                 LET r == operation(stage, row, env)
                     d == set_at(df, idx + 1, col, r.value)
                 IN /\ invoked' = Append(invoked, idx + 1)
                    /\ lastCall' = r.call
                    /\ IF r.raised
                       THEN /\ df' = df
                            /\ anyFailed' = TRUE
                            /\ last' = "failed"
                            /\ slept' = FALSE
                            /\ pc' = after_failure(stage)
                            /\ IF handler_saves(stage)
                               THEN /\ outfile' = FileOf(to_csv(df))
                                    /\ savedAt' = Append(savedAt, idx + 1)
                               ELSE UNCHANGED <<outfile, savedAt>>
                       ELSE /\ df' = d
                            /\ anyFailed' = anyFailed
                            /\ last' = "processed"
                            /\ slept' = TRUE
                            /\ pc' = "loop"
                            /\ IF is_checkpoint(idx, Len(df))
                               THEN /\ outfile' = FileOf(to_csv(d))
                                    /\ savedAt' = Append(savedAt, idx + 1)
                               ELSE UNCHANGED <<outfile, savedAt>>
    /\ idx' = next_index(idx, last' = "failed")
    /\ infile' = input_after(stage, infile, outfile, outfile')
    /\ UNCHANGED <<stage, exit, driver, run>>

\* After the loop: "Save final results", df.to_csv(output_file).
FinalSave ==
    /\ UNCHANGED <<navVars, walkVars, itemVars, aboutVars>>
    /\ pc = "loop"
    /\ idx = Len(df)
    /\ IF final_save(stage)
       THEN /\ outfile' = FileOf(to_csv(df))
            /\ savedAt' = Append(savedAt, idx)
       ELSE UNCHANGED <<outfile, savedAt>>
    /\ infile' = input_after(stage, infile, outfile, outfile')
    /\ exit' = "normal"
    /\ pc' = IF stage = "about" THEN "finally" ELSE "done"
    /\ UNCHANGED <<stage, df, idx, invoked, anyFailed, last, slept, lastCall,
                   driver, run>>

\* finally: "if driver: driver.quit()".
Finally ==
    /\ UNCHANGED <<navVars, walkVars, itemVars, aboutVars>>
    /\ pc = "finally"
    /\ driver' = quit_driver(driver)
    /\ pc' = "done"
    /\ UNCHANGED <<stage, exit, df, idx, infile, outfile, savedAt, invoked,
                   anyFailed, last, slept, lastCall, run>>

\* The process is terminated from outside between two records.
Kill ==
    /\ UNCHANGED <<navVars, walkVars, itemVars, aboutVars>>
    /\ pc = "loop"
    /\ pc' = "killed"
    /\ UNCHANGED <<stage, exit, df, idx, infile, outfile, savedAt, invoked,
                   anyFailed, last, slept, lastCall, driver, run>>

\* The frames the next step of the loop can write to the output location: the
\* frame of the final save, of the checkpoint of the row at hand, or of the
\* save in its handler.
pending_saves ==
    IF idx = Len(df) THEN {df}
    ELSE IF skip_record(stage, df[idx + 1]) THEN {}
    ELSE { IF operation(stage, df[idx + 1], env).raised THEN df
           ELSE set_at(df, idx + 1, StageCol(stage),
                       operation(stage, df[idx + 1], env).value) :
             env \in { e \in Environments(stage, df[idx + 1]) :
                         IF operation(stage, df[idx + 1], e).raised
                         THEN handler_saves(stage)
                         ELSE is_checkpoint(idx, Len(df)) } }

\* The process is terminated from outside while a df.to_csv of the loop or
\* the final save has written only k of its lines.
KillInSave ==
    /\ UNCHANGED <<navVars, walkVars, itemVars, aboutVars>>
    /\ pc = "loop"
    /\ \E d \in pending_saves : \E k \in 0..Len(d) :
           outfile' = cut_file(to_csv(d), k)
    /\ infile' = input_after(stage, infile, outfile, outfile')
    /\ pc' = "killed_saving"
    /\ UNCHANGED <<stage, exit, df, idx, savedAt, invoked,
                   anyFailed, last, slept, lastCall, driver, run>>

\* A second run of the same stage whose input file is the row-store the first
\* run wrote; it writes to an output location of its own.
Rerun ==
    /\ UNCHANGED <<navVars, walkVars, itemVars, aboutVars>>
    /\ pc = "done"
    /\ exit = "normal"
    /\ run = 1
    /\ run' = 2
    /\ infile' = outfile
    /\ outfile' = NoFile
    /\ pc' = "read"
    /\ exit' = "none"
    /\ df' = <<>>
    /\ idx' = 0
    /\ savedAt' = <<>>
    /\ invoked' = <<>>
    /\ anyFailed' = FALSE
    /\ last' = "none"
    /\ slept' = FALSE
    /\ lastCall' = NoCall
    /\ driver' = "none"
    /\ UNCHANGED stage

\* ------------------------------------------------- processor specification

\* The components a specification does not run.
IdleNav ==
    /\ navVariant = "gaf"
    /\ max_retries = 0
    /\ attempt = 0
    /\ navPc = "idle"
    /\ navResult = "none"
    /\ navLog = <<>>
    /\ sleeps = <<>>

IdleWalk ==
    /\ wpc = "idle"
    /\ max_pages = 0
    /\ current_page = 0
    /\ contractors_data = <<>>
    /\ loads = 0
    /\ clicks = 0
    /\ stop = "none"
    /\ contractor_items = 0
    /\ on_page = {}
    /\ located = "none"
    /\ button_disabled = "unread"

IdleItem ==
    /\ ipc = "idle"
    /\ contractor_data = <<>>
    /\ name_text = <<>>
    /\ cert_elements = <<>>
    /\ appended = <<>>
IdleAbout ==
    /\ apc = "idle"
    /\ page = <<>>
    /\ about_text = <<>>

PageLinks == {"N/A", "https://gaf/c"}

\* The headers of the input row-stores: the listing file, and the listing file
\* with the about column.
Headers(s) ==
    IF s = "about" THEN { {"page_link"} }
    ELSE { {"page_link", "about_section"}, {"page_link"} }

\* The rows of an input row-store with header h and n rows.
InputRows(s, h, n) ==
    { rows \in [1..n -> [h -> PageLinks \cup {"about text"}]] :
        \A i \in 1..n :
            /\ rows[i]["page_link"] \in
                   (IF s = "about" THEN PageLinks ELSE {"https://gaf/c"})
            /\ "about_section" \in h => rows[i]["about_section"] = "about text" }

InitProcessor(maxn) ==
    /\ stage \in Stages
    /\ pc = "read"
    /\ exit = "none"
    /\ df = <<>>
    /\ idx = 0
    /\ infile \in {NoFile} \cup
           { FileOf(rows) : rows \in UNION { InputRows(stage, h, n) :
                                h \in Headers(stage), n \in 0..maxn } }
    /\ outfile = NoFile
    /\ savedAt = <<>>
    /\ invoked = <<>>
    /\ anyFailed = FALSE
    /\ last = "none"
    /\ slept = FALSE
    /\ lastCall = NoCall
    /\ driver = "none"
    /\ run = 1
    /\ IdleNav
    /\ IdleWalk
    /\ IdleItem
    /\ IdleAbout

Init == InitProcessor(MaxRecords)

Next ==
    \/ ReadInput
    \/ SetupDriver
    \/ LoopBody
    \/ FinalSave
    \/ Finally
    \/ Kill
    \/ KillInSave

Spec == Init /\ [][Next]_vars

\* Two runs in a row, the second on the output of the first.
InitResume == InitProcessor(MaxResumeRecords)

NextResume ==
    \/ ReadInput
    \/ SetupDriver
    \/ LoopBody
    \/ FinalSave
    \/ Finally
    \/ Rerun

SpecResume == InitResume /\ [][NextResume]_vars

\* The runs on a row-store of exactly seven rows.
InitScenario ==
    /\ InitProcessor(7)
    /\ infile.exists
    /\ Len(infile.rows) = 7

SpecScenario == InitScenario /\ [][Next]_vars

\* ---------------------------------------------------------- safe_navigate

\* Largest max_retries passed to safe_navigate.
MaxRetriesBound == 3

NavVariants == {"gaf", "about"}

\* What one attempt can end with: the page loads and every wait completes;
\* driver.get raises WebDriverException; the document-ready wait times out;
\* (gaf) the wait for the listing container times out; an exception that is no
\* WebDriverException is raised.
AttemptOutcomes(v) ==
    {"ok", "nav_error", "ready_timeout", "other_exception"}
        \cup (IF v = "gaf" THEN {"listing_timeout"} ELSE {})

\* The exceptions "except WebDriverException" catches: TimeoutException is one.
CaughtByOuter == {"nav_error", "ready_timeout"}

\* Mutant: the loop runs one attempt too many.
range_one_more(a, m) == a <= m

\* "for attempt in range(max_retries)": the loop has another iteration.
in_range(a, m) == a < m

\* Mutant: the backoff runs after every failed attempt.
backoff_always(a, m) == TRUE

\* "if attempt < max_retries - 1": the attempt is not the final one.
not_final(a, m) == a < m - 1

\* One iteration of the for loop: the try block and its handlers.
NavAttempt ==
    /\ UNCHANGED <<procVars, walkVars, itemVars, aboutVars>>
    /\ navPc = "attempt"
    /\ in_range(attempt, max_retries)
    /\ \E o \in AttemptOutcomes(navVariant) :
         /\ navLog' = Append(navLog, o)
         /\ IF o = "ok"
            THEN /\ navPc' = "returned"
                 /\ navResult' = "True"
                 /\ UNCHANGED <<attempt, sleeps>>
            ELSE IF o = "other_exception"
            THEN /\ navPc' = "raised"
                 /\ UNCHANGED <<attempt, sleeps, navResult>>
            ELSE IF o \in CaughtByOuter
            THEN \* except WebDriverException: sleep and retry, or return False
                 IF not_final(attempt, max_retries)
                 THEN /\ sleeps' = Append(sleeps, attempt + 1)
                      /\ attempt' = attempt + 1
                      /\ UNCHANGED <<navPc, navResult>>
                 ELSE /\ navPc' = "returned"
                      /\ navResult' = "False"
                      /\ UNCHANGED <<attempt, sleeps>>
            ELSE \* except TimeoutException of the listing wait: sleep, continue
                 /\ sleeps' = IF not_final(attempt, max_retries)
                              THEN Append(sleeps, attempt + 1) ELSE sleeps
                 /\ attempt' = attempt + 1
                 /\ UNCHANGED <<navPc, navResult>>
    /\ UNCHANGED <<navVariant, max_retries>>

\* The loop is exhausted: the "return False" after it.
NavExhausted ==
    /\ UNCHANGED <<procVars, walkVars, itemVars, aboutVars>>
    /\ navPc = "attempt"
    /\ ~in_range(attempt, max_retries)
    /\ navPc' = "returned"
    /\ navResult' = "False"
    /\ UNCHANGED <<navVariant, max_retries, attempt, navLog, sleeps>>

IdleProc ==
    /\ stage = "about"
    /\ pc = "idle"
    /\ exit = "none"
    /\ df = <<>>
    /\ idx = 0
    /\ infile = NoFile
    /\ outfile = NoFile
    /\ savedAt = <<>>
    /\ invoked = <<>>
    /\ anyFailed = FALSE
    /\ last = "none"
    /\ slept = FALSE
    /\ lastCall = NoCall
    /\ driver = "none"
    /\ run = 1

InitNav ==
    /\ navVariant \in NavVariants
    /\ max_retries \in 0..MaxRetriesBound
    /\ attempt = 0
    /\ navPc = "attempt"
    /\ navResult = "none"
    /\ navLog = <<>>
    /\ sleeps = <<>>
    /\ IdleProc
    /\ IdleWalk
    /\ IdleItem
    /\ IdleAbout

NextNav ==
    \/ NavAttempt
    \/ NavExhausted

SpecNav == InitNav /\ [][NextNav]_vars

\* ------------------------------------- scrape_contractor_info: pagination

\* Largest max_pages passed to scrape_contractor_info.
MaxPagesBound == 3
\* Largest number of listing items on one page.
MaxItems == 2
\* Longest list of records: every page adds at most MaxItems records.
MaxCollected == (MaxPagesBound + 1) * MaxItems

\* The three locators of the "next" control, in the order they are tried.
NextLocators == <<"nth-child(9)", "nth-child(8)", "aria-label">>

\* The control the three find_element calls end with: that of the first
\* locator, in order, that is on the page; "none" when none is.
next_button(present) ==
    IF \E i \in 1..Len(NextLocators) : NextLocators[i] \in present
    THEN NextLocators[CHOOSE i \in 1..Len(NextLocators) :
                          /\ NextLocators[i] \in present
                          /\ \A j \in 1..(i - 1) : NextLocators[j] \notin present]
    ELSE "none"

\* "while current_page <= max_pages".
loop_test(cp, mp) == cp <= mp

\* Mutant: the click does not look at the page counter.
may_click_unbounded(disabled, cp, mp) == disabled # "true"

\* Mutant: the click does not look at the disabled attribute.
may_click_ignores_disabled(disabled, cp, mp) == cp < mp

\* "if button_disabled != "true" and current_page < max_pages".
may_click(disabled, cp, mp) == disabled # "true" /\ cp < mp

\* Mutant: a refused click does not leave the loop.
after_refusal_loops == "page"

\* The else branch of the click test: "break".
after_refusal == "returned"

\* "if not safe_navigate(driver, base_url): return contractors_data".
WalkNavigate ==
    /\ UNCHANGED <<procVars, navVars, itemVars, aboutVars>>
    /\ wpc = "nav"
    /\ \E ok \in BOOLEAN :
         IF ok
         THEN /\ current_page' = 1
              /\ loads' = loads + 1
              /\ IF loop_test(1, max_pages)
                 THEN wpc' = "page" /\ stop' = stop
                 ELSE wpc' = "returned" /\ stop' = "max_pages"
         ELSE /\ current_page' = current_page
              /\ loads' = loads
              /\ wpc' = "returned"
              /\ stop' = "nav_failed"
    /\ UNCHANGED <<max_pages, contractors_data, clicks,
                   contractor_items, on_page, located, button_disabled>>

\* Mutant: the list is started anew on every page.
extend_replacing(data, records) == records

\* contractors_data.append(contractor_data) for the records of one page, in
\* the order of the items.
extend(data, records) == data \o records

\* The items of the current page: none found ends the walk; otherwise every
\* item is extracted and appended, or raises and is passed over.
WalkPage ==
    /\ UNCHANGED <<procVars, navVars, itemVars, aboutVars>>
    /\ wpc = "page"
    /\ \E k \in 0..MaxItems, ok \in SUBSET (1..MaxItems) :
         /\ ok \subseteq 1..k
         /\ Len(contractors_data) + Cardinality(ok) <= MaxCollected
         /\ contractor_items' = k
         /\ IF k = 0
            THEN /\ wpc' = "returned"
                 /\ stop' = "no_items"
                 /\ UNCHANGED contractors_data
            ELSE /\ contractors_data' = extend(contractors_data,
                        SelectSeq([j \in 1..k |-> <<current_page, j>>],
                                  LAMBDA x : x[2] \in ok))
                 /\ wpc' = "next"
                 /\ stop' = stop
    /\ on_page' = {}
    /\ located' = "none"
    /\ button_disabled' = "unread"
    /\ UNCHANGED <<max_pages, current_page, loads, clicks>>

\* "Check if there is a next page": the three locators, the disabled
\* attribute, the click and the waits after it.
WalkNext ==
    /\ UNCHANGED <<procVars, navVars, itemVars, aboutVars>>
    /\ wpc = "next"
    /\ \E found \in SUBSET {"nth-child(9)", "nth-child(8)", "aria-label"},
          disabled \in {"true", "None", "N/A"},
          after \in {"find_raises", "click_raises", "loaded", "timeout"} :
         \* a value that is not looked at is drawn once
         /\ after = "find_raises" => (found = {} /\ disabled = "None")
         /\ next_button(found) = "none" => (disabled = "None" /\ after # "timeout")
         /\ IF after = "find_raises"
            THEN /\ wpc' = "returned"
                 /\ stop' = "error"
                 /\ on_page' = {}
                 /\ located' = "none"
                 /\ button_disabled' = "unread"
                 /\ UNCHANGED <<current_page, loads, clicks>>
            ELSE /\ on_page' = found
                 /\ located' = next_button(found)
                 /\ button_disabled' = IF next_button(found) = "none" THEN "unread"
                                       ELSE disabled
                 /\ IF next_button(found) = "none"
                    THEN /\ wpc' = "returned"
                         /\ stop' = "no_next"
                         /\ UNCHANGED <<current_page, loads, clicks>>
                    ELSE IF ~may_click(disabled, current_page, max_pages)
                    THEN /\ wpc' = after_refusal
                         /\ stop' = IF after_refusal = "returned"
                                    THEN "disabled_or_max" ELSE stop
                         /\ UNCHANGED <<current_page, loads, clicks>>
                    ELSE IF after = "click_raises"
                    THEN /\ wpc' = "returned"
                         /\ stop' = "error"
                         /\ UNCHANGED <<current_page, loads, clicks>>
                    ELSE /\ clicks' = clicks + 1
                         /\ loads' = loads + 1
                         /\ IF after = "loaded"
                            THEN /\ current_page' = current_page + 1
                                 /\ IF loop_test(current_page + 1, max_pages)
                                    THEN wpc' = "page" /\ stop' = stop
                                    ELSE wpc' = "returned" /\ stop' = "max_pages"
                            ELSE /\ current_page' = current_page
                                 /\ wpc' = "returned"
                                 /\ stop' = "error"
    /\ UNCHANGED <<max_pages, contractors_data, contractor_items>>

InitWalk ==
    /\ wpc = "nav"
    /\ max_pages \in 0..MaxPagesBound
    /\ current_page = 0
    /\ contractors_data = <<>>
    /\ loads = 0
    /\ clicks = 0
    /\ stop = "none"
    /\ contractor_items = 0
    /\ on_page = {}
    /\ located = "none"
    /\ button_disabled = "unread"
    /\ IdleProc
    /\ IdleNav
    /\ IdleItem
    /\ IdleAbout

NextWalk ==
    \/ WalkNavigate
    \/ WalkPage
    \/ WalkNext

SpecWalk == InitWalk /\ [][NextWalk]_vars

\* The walk is one sequential thread whose every wait has a timeout: a step
\* that can be taken is taken.
LiveWalk == InitWalk /\ [][NextWalk]_vars /\ WF_vars(NextWalk)

\* ------------------------------- scrape_contractor_info: one listing item

\* Longest element text, in tokens.
MaxTextLen == 2
\* Largest number of elements the certifications locator matches.
MaxCerts == 3

\* A text is a sequence of tokens: a blank, a letter, and (in a phone link)
\* the label "Phone Number:".
Blank == " "
Label == "Phone Number:"

TextsOver(tokens) == UNION { [1..n -> tokens] : n \in 0..MaxTextLen }

Texts == TextsOver({Blank, "a"})
PhoneTexts == TextsOver({Blank, "5", Label})
\* The texts of a certification element: empty, blank, or one of two names.
CertTexts == { <<>>, <<Blank>>, <<"c">>, <<"d">> }

\* The sentinel as a text, and Python's None (no text at all).
NAText == <<"N/A">>
NoneValue == <<"None">>

\* str.strip(): the text without its leading and trailing blanks.
strip(t) ==
    LET keep == { i \in 1..Len(t) : t[i] # Blank }
    IN IF keep = {} THEN <<>>
       ELSE SubSeq(t, CHOOSE i \in keep : \A j \in keep : i <= j,
                      CHOOSE i \in keep : \A j \in keep : i >= j)

\* str.replace("Phone Number:", "").
remove_label(t) == SelectSeq(t, LAMBDA x : x # Label)

\* ', '.join(texts).
RECURSIVE join(_)
join(ts) ==
    IF ts = <<>> THEN <<>>
    ELSE IF Len(ts) = 1 THEN ts[1]
    ELSE ts[1] \o <<", ">> \o join(Tail(ts))

\* An element found by a locator: its text can be read, or reading it raises
\* StaleElementReferenceException.
Elements(texts) == { [stale |-> FALSE, text |-> t] : t \in texts }
                       \cup { [stale |-> TRUE, text |-> <<>>] }

\* safe_get_text: 'element.text.strip() if element.text else "N/A"', "N/A" on
\* StaleElementReferenceException.
safe_get_text(el) ==
    IF el.stale THEN NAText
    ELSE IF el.text # <<>> THEN strip(el.text) ELSE NAText

\* The href of a link element: absent (None), empty, or an address; or the
\* element is stale.
Hrefs == {NoneValue, <<>>, <<"u">>}
Links == { [stale |-> FALSE, href |-> h] : h \in Hrefs }
             \cup { [stale |-> TRUE, href |-> NoneValue] }

\* safe_get_attribute(element, "href"): the attribute as get_attribute gives
\* it, "N/A" on StaleElementReferenceException.
safe_get_attribute(el) == IF el.stale THEN NAText ELSE el.href

\* Mutant: the texts are joined without the filter on "N/A".
certifications_unfiltered(old, els) ==
    IF els = <<>> THEN old
    ELSE join([i \in 1..Len(els) |-> safe_get_text(els[i])])

\* The value stored for the certifications: the texts that are not "N/A",
\* joined; the field is left alone when no element matches.
certifications(old, els) ==
    IF els = <<>> THEN old
    ELSE LET kept == SelectSeq([i \in 1..Len(els) |-> safe_get_text(els[i])],
                               LAMBDA t : t # NAText)
         IN IF kept # <<>> THEN join(kept) ELSE NAText

\* The phone number of the primary locator a.certification-card__phone: the
\* label is removed and the rest stripped only when the label is in the text.
phone_primary(text) ==
    IF \E i \in 1..Len(text) : text[i] = Label
    THEN strip(remove_label(text))
    ELSE text

\* The phone number of the fallback locator (a link to tel:).
phone_fallback(text) == strip(remove_label(text))

Fields == {"name", "page_link", "rating_stars", "certifications", "phone_number"}

\* "Extract name and page link": both elements are looked up before either
\* field is assigned, so one missing element leaves both fields alone.
ItemNameLink ==
    /\ UNCHANGED <<procVars, navVars, walkVars, aboutVars>>
    /\ ipc = "name"
    /\ \E found \in SUBSET {"name", "link"}, n \in Elements(Texts), l \in Links,
          raises \in BOOLEAN :
         IF raises
         THEN ipc' = "done" /\ UNCHANGED <<contractor_data, name_text>>
         ELSE /\ ipc' = "rating"
              /\ name_text' = IF "name" \in found THEN safe_get_text(n) ELSE NAText
              /\ contractor_data' =
                    IF found = {"name", "link"}
                    THEN [contractor_data EXCEPT !["name"] = safe_get_text(n),
                                                 !["page_link"] = safe_get_attribute(l)]
                    ELSE contractor_data
    /\ UNCHANGED <<appended, cert_elements>>

\* "Extract rating stars".
ItemRating ==
    /\ UNCHANGED <<procVars, navVars, walkVars, aboutVars>>
    /\ ipc = "rating"
    /\ \E found \in BOOLEAN, e \in Elements(Texts), raises \in BOOLEAN :
         IF raises
         THEN ipc' = "done" /\ UNCHANGED contractor_data
         ELSE /\ ipc' = "certs"
              /\ contractor_data' =
                    IF found
                    THEN [contractor_data EXCEPT !["rating_stars"] = safe_get_text(e)]
                    ELSE contractor_data
    /\ UNCHANGED <<appended, name_text, cert_elements>>

\* "Extract certifications": the bare except swallows every exception.
ItemCerts ==
    /\ UNCHANGED <<procVars, navVars, walkVars, aboutVars>>
    /\ ipc = "certs"
    /\ \E k \in 0..MaxCerts, raises \in BOOLEAN :
         \E els \in [1..k -> Elements(CertTexts)] :
            /\ raises => k = 0
            /\ cert_elements' = IF raises THEN <<>> ELSE els
            /\ contractor_data' =
                  IF raises THEN contractor_data
                  ELSE [contractor_data EXCEPT !["certifications"] =
                            certifications(contractor_data["certifications"], els)]
    /\ ipc' = "phone"
    /\ UNCHANGED <<appended, name_text>>

\* "Extract phone number": the primary locator, then the fallback; reading the
\* text of a stale element raises past both NoSuchElementException handlers.
ItemPhone ==
    /\ UNCHANGED <<procVars, navVars, walkVars, aboutVars>>
    /\ ipc = "phone"
    /\ \E primary \in BOOLEAN, fallback \in BOOLEAN, e \in Elements(PhoneTexts) :
         \* an element that is not looked up is drawn once
         /\ primary => ~fallback
         /\ (~primary /\ ~fallback) => e.stale
         /\ IF (primary \/ fallback) /\ e.stale
            THEN ipc' = "done" /\ UNCHANGED contractor_data
            ELSE /\ ipc' = "append"
                 /\ contractor_data' =
                       IF primary
                       THEN [contractor_data EXCEPT !["phone_number"] = phone_primary(e.text)]
                       ELSE IF fallback
                       THEN [contractor_data EXCEPT !["phone_number"] = phone_fallback(e.text)]
                       ELSE contractor_data
    /\ cert_elements' = <<>>
    /\ UNCHANGED <<appended, name_text>>

\* contractors_data.append(contractor_data).
ItemAppend ==
    /\ UNCHANGED <<procVars, navVars, walkVars, aboutVars>>
    /\ ipc = "append"
    /\ appended' = Append(appended, contractor_data)
    /\ ipc' = "done"
    /\ UNCHANGED <<contractor_data, name_text, cert_elements>>

InitItem ==
    /\ ipc = "name"
    /\ contractor_data = [f \in Fields |-> NAText]
    /\ name_text = NAText
    /\ cert_elements = <<>>
    /\ appended = <<>>
    /\ IdleProc
    /\ IdleNav
    /\ IdleWalk
    /\ IdleAbout

NextItem ==
    \/ ItemNameLink
    \/ ItemRating
    \/ ItemCerts
    \/ ItemPhone
    \/ ItemAppend

SpecItem == InitItem /\ [][NextItem]_vars

\* ------------------------------------------------- extract_about_section

\* Largest number of section elements of a detail page.
MaxSections == 2

\* A word of 96 characters, to make a paragraph longer than 100 characters.
Filler == "filler"

\* len() of one token, in characters.
width(w) ==
    CASE w = Filler -> 96
      [] w \in {"About", "ABOUT", "about"} -> 5
      [] w \in {"Our Company", "our company"} -> 11
      [] w \in {"N/A", "n/a"} -> 3
      [] OTHER -> 1

\* len(text).
RECURSIVE len(_)
len(t) == IF t = <<>> THEN 0 ELSE width(Head(t)) + len(Tail(t))

\* str.lower().
lower(t) ==
    [i \in 1..Len(t) |->
        CASE t[i] \in {"About", "ABOUT"} -> "about"
          [] t[i] = "Our Company" -> "our company"
          [] t[i] = "N/A" -> "n/a"
          [] OTHER -> t[i]]

\* 'word in text'.
contains(t, word) == \E i \in 1..Len(t) : t[i] = word

\* "\n".join(texts).
RECURSIVE join_lines(_)
join_lines(ts) ==
    IF ts = <<>> THEN <<>>
    ELSE IF Len(ts) = 1 THEN ts[1]
    ELSE ts[1] \o <<"\n">> \o join_lines(Tail(ts))

\* An element whose text is t, and one whose reference is stale.
el(t) == [stale |-> FALSE, text |-> t]
StaleElement == [stale |-> TRUE, text |-> <<>>]

\* What the primary locator /html/body/main/section[4]/div/div/div/p ends
\* with: NoSuchElementException, another exception, or an element.
PrimaryLookups ==
    { [found |-> "absent", element |-> StaleElement],
      [found |-> "error",  element |-> StaleElement],
      [found |-> "found",  element |-> StaleElement],
      [found |-> "found",  element |-> el(<<>>)],
      [found |-> "found",  element |-> el(<<"x">>)] }

\* What section.find_elements("h1, ..., h6") ends with: it raises, or gives
\* the headings of the section.
HeadingLookups ==
    { [raises |-> TRUE, elements |-> <<>>] }
    \cup { [raises |-> FALSE, elements |-> hs] :
             hs \in { <<>>,
                      << el(<<"x">>) >>,
                      << el(<<"x">>), el(<<"About", "x">>) >> } }

\* The p elements of one section, or of the document outside every section.
ParagraphLists ==
    { <<>>,
      << el(<<>>) >>,
      << el(<<"x">>), el(<<"x">>) >>,
      << el(<<"x">>), el(<<>>) >>,
      << el(<<Filler, "About">>) >>,
      << el(<<Filler, "Our Company">>) >> }

SectionElements == [headings : HeadingLookups, paragraphs : ParagraphLists]

\* The detail pages of at most m sections: how safe_navigate ends on the
\* page, and its document (the document of a page that did not load is not
\* looked at).
DetailPages(m) ==
    { [nav |-> "ok", primary |-> pr, sections |-> ss, outside |-> o] :
        pr \in PrimaryLookups,
        ss \in UNION { [1..n -> SectionElements] : n \in 0..m },
        o \in ParagraphLists }
    \cup { [nav |-> n, primary |-> [found |-> "absent", element |-> StaleElement],
            sections |-> <<>>, outside |-> <<>>] : n \in {"fail", "crash"} }

\* The heading test: "about" in safe_get_text(heading).lower().
is_about_heading(h) == contains(lower(safe_get_text(h)), "about")

\* One iteration of "for section in sections": the text returned from inside
\* it, or that the loop goes on (no heading matches, the section has no
\* paragraph, or the lookup raised into the bare except).
section_about(sec) ==
    IF sec.headings.raises THEN [returns |-> FALSE, text |-> <<>>]
    ELSE IF (\E i \in 1..Len(sec.headings.elements) :
                 is_about_heading(sec.headings.elements[i]))
            /\ sec.paragraphs # <<>>
    THEN [returns |-> TRUE,
          text |-> join_lines([i \in 1..Len(sec.paragraphs) |->
                                   safe_get_text(sec.paragraphs[i])])]
    ELSE [returns |-> FALSE, text |-> <<>>]

\* driver.find_elements(By.TAG_NAME, "p"): every paragraph of the document,
\* those of the sections and then those outside them.
RECURSIVE all_paragraphs(_)
all_paragraphs(pg) ==
    IF pg.sections = <<>> THEN pg.outside
    ELSE Head(pg.sections).paragraphs
             \o all_paragraphs([pg EXCEPT !.sections = Tail(pg.sections)])

\* "len(p_text) > 100 and ('about' in p_text.lower() or 'our company' in ...)".
is_about_paragraph(p_text) ==
    /\ len(p_text) > 100
    /\ contains(lower(p_text), "about") \/ contains(lower(p_text), "our company")

\* The scan of all paragraphs: the first that passes the test, else "N/A".
RECURSIVE long_paragraph(_)
long_paragraph(ps) ==
    IF ps = <<>> THEN NAText
    ELSE IF is_about_paragraph(safe_get_text(Head(ps))) THEN safe_get_text(Head(ps))
    ELSE long_paragraph(Tail(ps))

\* The handler of NoSuchElementException: the sections in order, then the scan.
RECURSIVE fallbacks(_, _)
fallbacks(pg, i) ==
    IF i > Len(pg.sections) THEN long_paragraph(all_paragraphs(pg))
    ELSE IF section_about(pg.sections[i]).returns
    THEN section_about(pg.sections[i]).text
    ELSE fallbacks(pg, i + 1)

\* The fallbacks run only in the handler of NoSuchElementException.
uses_fallbacks(pr) == pr.found = "absent"

\* The try block of extract_about_section on a page that loaded.
find_about(pg) ==
    IF uses_fallbacks(pg.primary) THEN fallbacks(pg, 1)
    ELSE IF pg.primary.found = "found" THEN safe_get_text(pg.primary.element)
    ELSE NAText

\* "if not safe_navigate(driver, url): return about_text".
AboutNavigate ==
    /\ UNCHANGED <<procVars, navVars, walkVars, itemVars>>
    /\ apc = "navigate"
    /\ apc' = CASE page.nav = "ok" -> "extract"
                [] page.nav = "fail" -> "returned"
                [] OTHER -> "raised"
    /\ UNCHANGED <<page, about_text>>

\* The try block and "return about_text".
AboutExtract ==
    /\ UNCHANGED <<procVars, navVars, walkVars, itemVars>>
    /\ apc = "extract"
    /\ about_text' = find_about(page)
    /\ apc' = "returned"
    /\ UNCHANGED page

InitAbout ==
    /\ apc = "navigate"
    /\ page \in DetailPages(MaxSections)
    /\ about_text = NAText
    /\ IdleProc
    /\ IdleNav
    /\ IdleWalk
    /\ IdleItem

NextAbout ==
    \/ AboutNavigate
    \/ AboutExtract

SpecAbout == InitAbout /\ [][NextAbout]_vars

\* ------------------------------------------------------------- properties

\* A cell of a row-store file holds a resolved value: not the sentinel, not missing.
FieldResolved(cell) == cell # "N/A" /\ cell # ""

\* Every row was processed: none skipped.
AllProcessed == invoked = [i \in 1..Len(df) |-> i]

\* The loop stands between two batches: a whole number of batches is done and
\* rows remain.
BetweenBatches == idx > 0 /\ idx % BatchSize = 0 /\ idx < Len(df)

\* C1: idempotent resume. A second run on the row-store the first run produced
\* invokes the per-record operation for no row whose stage field is already
\* resolved, and leaves the row-store unchanged.
C1_IdempotentResume ==
    run = 2 =>
        /\ \A j \in 1..Len(invoked) :
               ~FieldResolved(infile.rows[invoked[j]][StageCol(stage)])
        /\ exit = "normal" => outfile.rows = infile.rows

\* C2: checkpoint durability. When the process is killed between two batches,
\* the output row-store is a complete snapshot (one row per record) that holds
\* the stage value computed for every record of the batches completed.
C2_CheckpointDurability ==
    (pc = "killed" /\ BetweenBatches) =>
        /\ outfile.exists
        /\ Len(outfile.rows) = Len(df)
        /\ \A i \in 1..idx :
               outfile.rows[i][StageCol(stage)] = to_csv_cell(df[i][StageCol(stage)])

\* C3 as stated: 7 records, no record fails: the row-store is written exactly
\* twice, after record 5 and after record 7.
C3_TwoSnapshots ==
    (exit = "normal" /\ Len(df) = 7 /\ ~anyFailed) => savedAt = <<5, 7>>

\* C3: 7 records, batch size 5, no record fails and none is skipped: the
\* row-store is written exactly three times: after record 5, after record 7,
\* and once more after the loop.
C3_ThreeSnapshots ==
    (exit = "normal" /\ Len(df) = 7 /\ ~anyFailed /\ AllProcessed)
        => savedAt = <<5, 7, 7>>

C3_Witness ==
    /\ pc = "done"
    /\ exit = "normal"
    /\ Len(df) = 7
    /\ ~anyFailed
    /\ AllProcessed
    /\ savedAt = <<5, 7, 7>>

\* C4: once the loop has passed a record whose position is a multiple of 5,
\* and once it has passed the last record, the output row-store is the full
\* in-memory row-store before the next record is started, whether that record
\* was processed, skipped or failed.
C4_PersistedAtBoundary ==
    /\ (pc = "loop" /\ BetweenBatches) => outfile = FileOf(to_csv(df))
    /\ (pc \in {"finally", "done"} /\ exit = "normal")
           => outfile = FileOf(to_csv(df))

\* The analysis request was made and failed: a transport exception or a
\* status other than 200.
FailedCall(c) == c # NoCall /\ (c.exc \/ c.status_code # 200)

\* C9: when the analysis request of a record answers a non-200 status or
\* raises a transport exception, the record's gpt_analysis becomes exactly
\* "Error in API call", no exception reaches the per-record handler, and the
\* loop goes on to the next record.
C9_ApiErrorSentinel ==
    [][ (stage = "gpt" /\ idx' = idx + 1 /\ FailedCall(lastCall'))
            => /\ df'[idx']["gpt_analysis"] = ApiError
               /\ last' = "processed"
               /\ anyFailed' = anyFailed
               /\ pc' = "loop" ]_vars

C9_Witness ==
    /\ stage = "gpt"
    /\ pc = "loop"
    /\ idx > 0
    /\ idx < Len(df)
    /\ lastCall.status_code = 500
    /\ df[idx]["gpt_analysis"] = ApiError

\* C10: when processing record i raises, the failure is caught, the stage
\* field of record i stays "N/A", and the loop continues: every run that
\* entered the loop passes every record.
C10_FailureContained ==
    /\ [][ (idx' = idx + 1 /\ last' = "failed")
              => /\ df'[idx'][StageCol(stage)] = NA
                 /\ pc' = "loop" ]_vars
    /\ []((pc \in {"finally", "done"} /\ exit \notin {"read_error", "setup_error"})
              => (exit = "normal" /\ idx = Len(df)))

C10_Witness ==
    /\ pc = "done"
    /\ exit = "normal"
    /\ anyFailed
    /\ last = "processed"
    /\ idx = Len(df)
    /\ \E i \in 1..Len(df) : df[i][StageCol(stage)] = NA /\ i < idx

\* The attempts that failed.
Failures == {"nav_error", "ready_timeout", "listing_timeout"}

\* C7: safe_navigate issues at most max_retries page-load attempts, returns
\* True as soon as one attempt completes its waits (no attempt follows a
\* success), returns False when all max_retries attempts have failed, and
\* never raises on a navigation error or a wait timeout.
C7_BoundedRetry ==
    /\ Len(navLog) <= max_retries
    /\ \A i \in 1..Len(navLog) :
           navLog[i] = "ok" => (i = Len(navLog) /\ navPc = "returned"
                                  /\ navResult = "True")
    /\ navResult = "True" => (navLog # <<>> /\ navLog[Len(navLog)] = "ok")
    /\ navResult = "False" =>
           (Len(navLog) = max_retries /\ \A i \in 1..Len(navLog) : navLog[i] \in Failures)
    /\ navPc = "raised" => navLog[Len(navLog)] = "other_exception"
    /\ (navPc = "returned") = (navResult # "none")

C7_Witness ==
    /\ navPc = "returned"
    /\ navResult = "False"
    /\ max_retries = 3
    /\ Len(navLog) = 3
    /\ navLog[3] = "ready_timeout"

\* C5: pagination always halts. Whatever the site does, scrape_contractor_info
\* reaches its return statement.
C5_WalkHalts == <>(wpc = "returned")

\* The walk returned with the "next" control present and disabled on the page.
C5_Witness == wpc = "returned" /\ stop = "disabled_or_max" /\ current_page < max_pages

\* C6 as stated: for every max_pages = N >= 0 the walk loads at most N listing
\* pages, counting the start address and every click on "next".
C6_AtMostNLoads == loads <= max_pages

\* C6: the walk loads at most max(N, 1) listing pages: at most N for N >= 1,
\* and the start address alone for N = 0; it clicks "next" at most N - 1 times.
C6_AtMostMaxN1Loads ==
    /\ loads <= (IF max_pages >= 1 THEN max_pages ELSE 1)
    /\ loads <= clicks + 1
    /\ max_pages >= 1 => clicks <= max_pages - 1

C6_Witness ==
    /\ wpc = "returned"
    /\ max_pages = 3
    /\ loads = 3
    /\ clicks = 2

\* A field value that is a non-empty string after trimming (the sentinel is one).
ValidValue(v) == v # NoneValue /\ strip(v) # <<>>

\* C8: in every record the listing extraction produces, each of the five
\* fields is present and is a non-empty extracted string or exactly "N/A":
\* never missing, null, or empty after trimming.
C8_FieldsNeverEmpty ==
    \A i \in 1..Len(appended) :
        /\ DOMAIN appended[i] = Fields
        /\ \A f \in Fields : ValidValue(appended[i][f])

\* C11: when processing a record fails at the per-record handler, the full
\* row-store is written to the output location before the next record is
\* started, in the extract stage and in the analysis stage.
C11_SavedOnFailure ==
    (pc = "loop" /\ last = "failed") => outfile = FileOf(to_csv(df))

\* The text of an element as the page shows it: none when it cannot be read.
text_of(e) == IF e.stale THEN <<>> ELSE strip(e.text)

\* A section with a heading whose text contains "about" (in any case) and
\* with paragraph elements.
AboutSection(sec) ==
    /\ ~sec.headings.raises
    /\ \E i \in 1..Len(sec.headings.elements) :
           contains(lower(text_of(sec.headings.elements[i])), "about")
    /\ sec.paragraphs # <<>>

\* extract_about_section returned from a page that loaded.
Extracted == apc = "returned" /\ page.nav = "ok"

\* C12: fallback ordering. On a loaded page whose primary about locator is
\* absent and that has a section with an "about" heading and paragraphs,
\* extract_about_section returns the joined text of the paragraphs of the
\* first such section, and not "N/A" (so the long-paragraph scan is used only
\* when no such section exists).
C12_FallbackOrdering ==
    (/\ Extracted
     /\ page.primary.found = "absent"
     /\ \E i \in 1..Len(page.sections) : AboutSection(page.sections[i]))
    => LET i == CHOOSE i \in 1..Len(page.sections) :
                    /\ AboutSection(page.sections[i])
                    /\ \A j \in 1..(i - 1) : ~AboutSection(page.sections[j])
           ps == page.sections[i].paragraphs
       IN /\ about_text = join_lines([k \in 1..Len(ps) |-> text_of(ps[k])])
          /\ about_text # NAText

\* C17: the first locator that resolves to a non-empty text wins: a primary
\* element with text gives that text; a primary element whose text is empty
\* is followed by the fallback locators; "N/A" is returned only when neither
\* the primary locator nor a fallback gives a non-empty text.
C17_FirstNonEmptyWins ==
    Extracted =>
        /\ (page.primary.found = "found" /\ text_of(page.primary.element) # <<>>)
               => about_text = text_of(page.primary.element)
        /\ about_text = NAText
               => /\ page.primary.found = "found"
                      => text_of(page.primary.element) = <<>>
                  /\ fallbacks(page, 1) = NAText

\* What the text of a certification element resolves to: the sentinel for an
\* element without text or that cannot be read, else its trimmed text.
Resolved(e) == IF e.stale \/ e.text = <<>> THEN NAText ELSE strip(e.text)

\* The positions of the matched elements that do not resolve to "N/A".
ValidCerts == { i \in 1..Len(cert_elements) : Resolved(cert_elements[i]) # NAText }

\* The texts at the positions ps, in page order, with ", " between them.
RECURSIVE Listed(_)
Listed(ps) ==
    IF ps = {} THEN <<>>
    ELSE LET m == CHOOSE i \in ps : \A j \in ps : j <= i
         IN IF ps = {m} THEN Resolved(cert_elements[m])
            ELSE Listed(ps \ {m}) \o <<", ">> \o Resolved(cert_elements[m])

\* C13: the stored certifications are the texts of all matching elements in
\* page order, those resolving to "N/A" removed, joined by ", "; when no
\* element matches or every element resolves to "N/A" the stored value is
\* "N/A" and not the empty string.
C13_Certifications ==
    ipc = "phone" =>
        IF ValidCerts = {}
        THEN /\ contractor_data["certifications"] = NAText
             /\ contractor_data["certifications"] # <<>>
        ELSE contractor_data["certifications"] = Listed(ValidCerts)

\* Three elements match, the second resolves to "N/A": the two valid texts joined.
C13_Witness ==
    /\ ipc = "phone"
    /\ Len(cert_elements) = 3
    /\ ValidCerts = {1, 3}
    /\ contractor_data["certifications"] = <<"c", ", ", "d">>

\* The input row-store was read into the frame.
FrameRead == pc \in {"setup", "loop", "finally", "done", "killed"} /\ exit # "read_error"

\* The rows rs are the records of the input, one for one and in order: every
\* cell outside the stage column is the cell read from the input.
SameRecords(rs, cell(_)) ==
    /\ Len(rs) = Len(infile.rows)
    /\ \A i \in 1..Len(rs) :
           /\ DOMAIN rs[i] = DOMAIN infile.rows[i] \cup {StageCol(stage)}
           /\ \A c \in DOMAIN infile.rows[i] \ {StageCol(stage)} :
                  rs[i][c] = cell(read_cell(infile.rows[i][c]))

\* C14: the record set has the rows of the input at every point of a stage
\* and in every snapshot the stage has written: no step adds, removes or
\* reorders rows; only cell values of the stage column change.
C14_RowCountFixed ==
    /\ [](FrameRead => SameRecords(df, LAMBDA v : v))
    /\ []((FrameRead /\ savedAt # <<>>) => SameRecords(outfile.rows, to_csv_cell))
    /\ [][FrameRead => Len(df') = Len(df)]_vars

\* A run on six records that stored values and wrote three snapshots.
C14_Witness ==
    /\ pc = "done"
    /\ exit = "normal"
    /\ Len(df) = 6
    /\ Len(outfile.rows) = 6
    /\ Len(savedAt) = 3
    /\ df[1][StageCol(stage)] # NA
    /\ infile.rows[1]["page_link"] # infile.rows[2]["page_link"]

\* C15: when the input row-store cannot be read, or the browser session
\* cannot be created, the run is aborted: the per-record operation is invoked
\* for no record, nothing is written to the output location, and the run
\* does not enter the loop.
C15_FatalAborts ==
    exit \in {"read_error", "setup_error"} =>
        /\ invoked = <<>>
        /\ savedAt = <<>>
        /\ ~outfile.exists
        /\ idx = 0
        /\ pc \in {"finally", "done"}

\* The session could not be created for a row-store with records.
C15_Witness ==
    /\ pc = "done"
    /\ exit = "setup_error"
    /\ driver = "none"
    /\ Len(df) > 0

\* C16: the file at the output location is, whenever it exists, a complete
\* snapshot: the header and one full row for every record, also when the
\* process was killed while a save was in progress.
C16_CompleteSnapshot ==
    outfile.exists =>
        /\ outfile.header
        /\ Len(outfile.rows) = Len(df)
        /\ \A i \in 1..Len(outfile.rows) : DOMAIN outfile.rows[i] = DOMAIN df[i]

\* C18: an extraction miss on one field of a listing item is never an error:
\* the record of the item is appended whatever is missing or stale, and a
\* field whose element is present has its value (here the name, whether or
\* not the link element beside it is found).
C18_MissIsSoft ==
    /\ ipc = "done" => Len(appended) = 1
    /\ \A i \in 1..Len(appended) : appended[i]["name"] = name_text

\* The walk takes the step that follows the extraction of a page's items.
NextStep == wpc = "next" /\ wpc' # "next"

\* C19: the walker stops without invoking the "next" control when the page
\* counter has reached max_pages, when the page has no listing items, when
\* none of the three locators (tried in the order nth-child(9), nth-child(8),
\* aria-label/class) finds a control, or when the control found is disabled;
\* it invokes the control only when one is found, enabled, and
\* current_page < max_pages.
C19_StopsWithoutClick ==
    /\ [][ clicks' # clicks =>
              /\ located' # "none"
              /\ button_disabled' # "true"
              /\ current_page < max_pages
              /\ contractor_items > 0 ]_vars
    /\ [][ (NextStep /\ (\/ current_page >= max_pages
                         \/ on_page' = {}
                         \/ button_disabled' = "true"))
              => (wpc' = "returned" /\ clicks' = clicks) ]_vars
    /\ [][ (wpc = "page" /\ contractor_items' = 0)
              => (wpc' = "returned" /\ clicks' = clicks) ]_vars
    /\ [][ NextStep =>
              located' = (IF "nth-child(9)" \in on_page' THEN "nth-child(9)"
                          ELSE IF "nth-child(8)" \in on_page' THEN "nth-child(8)"
                          ELSE IF "aria-label" \in on_page' THEN "aria-label"
                          ELSE "none") ]_vars

\* After a click the walk stopped at a disabled control that the second
\* locator found, with pages to go.
C19_Witness ==
    /\ wpc = "returned"
    /\ clicks >= 1
    /\ located = "nth-child(8)"
    /\ button_disabled = "true"
    /\ current_page < max_pages

\* C20: the inter-record delay runs after every record that was processed
\* (not skipped), whether its processing succeeded or failed, also when the
\* per-record operation raised.
C20_DelayAfterEachRecord ==
    last \in {"processed", "failed"} => slept

\* C21: in safe_navigate a failed attempt is followed by the backoff wait if
\* and only if it is not the final attempt: no wait follows the failure of
\* attempt max_retries, exactly one wait lies between two consecutive
\* attempts, and no wait follows anything but a failed attempt.
C21_BackoffUnlessFinal ==
    /\ \A j \in 1..Len(navLog) :
           navLog[j] \in Failures =>
               /\ Cardinality({ i \in 1..Len(sleeps) : sleeps[i] = j })
                      = (IF j < max_retries THEN 1 ELSE 0)
    /\ \A i \in 1..Len(sleeps) :
           /\ sleeps[i] \in 1..Len(navLog)
           /\ navLog[sleeps[i]] \in Failures
    /\ (navPc = "attempt" /\ attempt < max_retries) => Len(sleeps) = attempt
    /\ \A i \in 1..Len(sleeps) : sleeps[i] = i

\* Three attempts failed, the last on the listing wait: two waits, none at the end.
C21_Witness ==
    /\ navPc = "returned"
    /\ navResult = "False"
    /\ max_retries = 3
    /\ navLog[3] = "listing_timeout"
    /\ sleeps = <<1, 2>>

\* C22: a browser session created in a run has been released (driver.quit)
\* when the run ends, on every exit path: no run ends with a session that is
\* still open.
C22_SessionReleased ==
    pc = "done" => driver \in {"none", "quit"}

\* The record of page p and item i comes before that of page q and item j.
Before(a, b) == a[1] < b[1] \/ (a[1] = b[1] /\ a[2] < b[2])

\* C23: whatever ends the walk, scrape_contractor_info returns every record
\* it appended on the pages already processed, in page order and then item
\* order: no step removes or moves a record that was collected, and the
\* list returned is the list collected.
C23_NothingDropped ==
    /\ [][ /\ Len(contractors_data') >= Len(contractors_data)
           /\ SubSeq(contractors_data', 1, Len(contractors_data)) = contractors_data
         ]_vars
    /\ [](\A i, j \in 1..Len(contractors_data) :
              i < j => Before(contractors_data[i], contractors_data[j]))
    /\ [](\A i \in 1..Len(contractors_data) :
              contractors_data[i][1] \in 1..current_page)

\* The walk ended on an error while moving on from its second page, with
\* the records of both pages.
C23_Witness ==
    /\ wpc = "returned"
    /\ stop = "error"
    /\ current_page = 2
    /\ Len(contractors_data) = 3
    /\ contractors_data[1][1] = 1
    /\ contractors_data[3][1] = 2

\* C24: when a run reaches the end of its record loop, the row-store at the
\* output location is the in-memory record set: its header, and for every
\* record a row with the value of every cell (a missing value as the empty
\* cell), whichever records failed and whatever the number of records is
\* modulo 5.
C24_OutputEqualsFrame ==
    (pc \in {"finally", "done"} /\ exit = "normal") =>
        /\ outfile.exists
        /\ outfile.header
        /\ Len(outfile.rows) = Len(df)
        /\ \A i \in 1..Len(df) :
               /\ DOMAIN outfile.rows[i] = DOMAIN df[i]
               /\ \A c \in DOMAIN df[i] :
                      outfile.rows[i][c] = (IF df[i][c] = NaN THEN "" ELSE df[i][c])

\* Four records, the last one failed in the extract stage: the row-store
\* written after the loop is the frame.
C24_Witness ==
    /\ pc = "done"
    /\ exit = "normal"
    /\ stage = "about"
    /\ Len(df) = 4
    /\ last = "failed"
    /\ savedAt = <<4>>
    /\ df[1]["about_section"] = "about text"

\* C25: within one run the records are visited in stored order and the
\* per-record operation is invoked at most once per record: the positions
\* it is invoked for increase strictly, every step of the loop moves to the
\* next record, and a failed record is not taken again.
C25_OncePerRecord ==
    /\ [](\A i, j \in 1..Len(invoked) : i < j => invoked[i] < invoked[j])
    /\ [](\A i \in 1..Len(invoked) : invoked[i] \in 1..idx)
    /\ [][ (pc = "loop" /\ invoked' # invoked)
              => /\ invoked' = Append(invoked, idx + 1)
                 /\ idx' = idx + 1 ]_vars
    /\ [][ idx' >= idx ]_vars

\* A run of the analysis stage over three records, one of which failed, that
\* invoked the operation once for each.
C25_Witness ==
    /\ pc = "done"
    /\ exit = "normal"
    /\ stage = "gpt"
    /\ anyFailed
    /\ invoked = <<1, 2, 3>>
    /\ Len(df) = 3

\* C26: the stages never write to their input row-store file: every save
\* goes to the output location; and of the columns of the loaded record set
\* only the stage's own column is ever assigned.
C26_InputUntouched ==
    /\ [][ infile' = infile ]_vars
    /\ [][ (pc = "loop" /\ pc' # "killed_saving") =>
              \A i \in 1..Len(df) : \A c \in DOMAIN df[i] \ {StageCol(stage)} :
                  /\ i \in 1..Len(df')
                  /\ c \in DOMAIN df'[i]
                  /\ df'[i][c] = df[i][c] ]_vars
    /\ [][ (pc = "read" /\ FrameRead') =>
              \A i \in 1..Len(infile.rows) :
                  \A c \in DOMAIN infile.rows[i] \ {StageCol(stage)} :
                      df'[i][c] = read_cell(infile.rows[i][c]) ]_vars
    /\ [](output_file(stage) # input_file(stage))

\* A run of the extract stage wrote its output and left its input, whose
\* rows differ, as it was.
C26_Witness ==
    /\ pc = "done"
    /\ exit = "normal"
    /\ stage = "about"
    /\ Len(savedAt) = 2
    /\ Len(infile.rows) = 5
    /\ infile.rows[1]["page_link"] # infile.rows[5]["page_link"]
    /\ outfile.rows # infile.rows

====
